---- MODULE Spec2Model ----
(***************************************************************************)
(* Model of BlockchainService (src/src/lib/services/BlockchainService.ts): *)
(* the transaction submission / confirmation loop, the SAS session with    *)
(* its refresh timer, and the SAS WebSocket with its reconnect timers.     *)
(*                                                                         *)
(* Every await of the source is a suspension point: the code between two   *)
(* awaits (or a whole timer / socket callback) is one action.  The fields  *)
(* of the instance are gathered in the record Cur so that the private      *)
(* methods (cleanupSession, setupSessionRefresh, ...) can be written as    *)
(* operators from instance state to instance state and composed in the     *)
(* order the code calls them.  Timers and sockets are runtime objects      *)
(* named by ids; an id is reused once nothing refers to it any more.       *)
(***************************************************************************)
EXTENDS Integers, Sequences, FiniteSets, TLC

VARIABLES
  \* ---- instance fields -------------------------------------------------
  sasConfig,          \* [configured, autoRefresh, wsEndpoint], fixed by the constructor
  sasSession,         \* NoSession or [token |-> TRUE, refreshToken : does it hold one]
  sasRefreshTimeout,  \* NULL or the id of the timer last armed by setupSessionRefresh
  ws,                 \* NULL or the id of the current socket
  reconnectAttempts,
  \* ---- runtime objects the instance created ------------------------------
  timers,             \* ids of the refresh timers that are armed (not fired, not cleared)
  sockets,            \* id -> state, for the sockets whose handlers are attached and may still run
  reconnectTimers,    \* number of pending (untracked) reconnect timers
  \* ---- what the EventEmitter has emitted ---------------------------------
  txEvents,           \* log of transaction_* events: <<[type, sig, src]>>
  \* ---- asynchronous calls in flight --------------------------------------
  authInFlight,       \* number of authenticateWithSAS calls awaiting their response
  refreshInFlight,    \* id of a refresh awaiting its response -> has a refresh that was
                      \* in flight together with it installed its token meanwhile
  logoutInFlight,     \* number of logoutFromSAS calls awaiting their response
  \* ---- sendTransactionWithRetry ------------------------------------------
  txPc, retries, attempt, blockhash, lastValidBlockHeight, signature,
  elapsed, txResult, lastError, nFetch, nSend,
  slot,               \* what the last getSlot of this attempt answered (0: nothing yet, or it rejected)
  rejected,           \* history: <<>> or <<nFetch, nSend>> when the ledger reported an error
  \* ---- history -----------------------------------------------------------
  last,               \* the session step taken last when it is one of Observed:
                      \* [op, arg, out], out being the events the step emitted
  \* ---- account and log listeners ----------------------------------------
  accountChangeListeners, \* the registry: account key -> subscription id
  logsSubscriptionId,     \* NULL or the id of the logs subscription
  upstream,           \* the subscriptions live at the connection: id -> account key, or "logs"
  handles,            \* the cleanup closures handed out and still held by a caller:
                      \* [key, subId, deletes, calls]
  lastCleanup,        \* history: what the cleanup handle invoked last did
  logsCleanup,        \* history: what the logs cleanup handle invoked last did
  \* ---- verifyAttestation / batchVerifyAttestations -----------------------
  vInput, vPc, vResult,
  bAddrs, bPc, bStart, bCalls, results,
  \* ---- address derivation -------------------------------------------------
  salt,               \* process.env.NIN_SALT as a string of digits; <<>> when it is not set
  derived,            \* history: the [nin, address] pairs generateAddressFromNIN returned
  checked,            \* history: the last verifyAddressForNIN call, [nin, address, out]
  \* ---- NINService rate limiter ---------------------------------------------
  tokensThisInterval, \* tokens the module's rateLimiter handed out in the current interval
  served,             \* history: caller -> calls of it let through in the current interval
  callState,          \* caller -> "idle", "waiting" (inside removeTokens) or "passed"
  \* ---- the backoff of sendTransactionWithRetry ----------------------------
  bkPc, bkRetries, bkAttempt,
  slept,              \* history: the delays the submission slept, one per retry
  \* ---- BatchVerificationService -------------------------------------------
  batchJob,           \* NoJob or the job record held in batchJobs
  jPc,                \* where processBatch is: idle, chunk, notifyComplete, notifyFailed, ended
  jIndex,             \* i of the chunk loop
  jNotify             \* options.notifyOnComplete && options.notifyEmail

instVars == <<sasConfig, sasSession, sasRefreshTimeout, ws, reconnectAttempts,
              timers, sockets, reconnectTimers, txEvents>>
callVars == <<authInFlight, refreshInFlight, logoutInFlight>>
txVars   == <<txPc, retries, attempt, blockhash, lastValidBlockHeight, signature,
              elapsed, txResult, lastError, nFetch, nSend, slot, rejected>>
listenVars == <<accountChangeListeners, logsSubscriptionId, upstream, handles, lastCleanup,
                logsCleanup>>
verifyVars == <<vInput, vPc, vResult>>
batchVars  == <<bAddrs, bPc, bStart, bCalls, results>>
addrVars   == <<salt, derived, checked>>
limitVars  == <<tokensThisInterval, served, callState>>
backoffVars == <<bkPc, bkRetries, bkAttempt, slept>>
jobVars    == <<batchJob, jPc, jIndex, jNotify>>
moreVars   == <<backoffVars, jobVars>>
auxVars  == <<listenVars, verifyVars, batchVars, addrVars, limitVars, moreVars>>
vars     == <<instVars, callVars, txVars, last, auxVars>>

(* ------------------------------ bounds -------------------------------- *)
MaxAuthInFlight    == 1    \* authenticateWithSAS calls awaiting their response
MaxRefreshInFlight == 2    \* refresh requests awaiting their response
MaxLogoutInFlight  == 1    \* logoutFromSAS calls awaiting their response
MaxReconnectTimers == 2    \* reconnect timers pending
MaxMsgs            == 1    \* transaction messages the stream delivers
MaxRetries         == 2    \* largest options.retries tried
MaxStreamRetries   == 1    \* largest options.retries tried while the stream delivers messages
MaxBlockhash       == 2    \* distinct blockhashes the ledger hands out
MaxHeight          == 1    \* largest lastValidBlockHeight
MaxHandles         == 2    \* cleanup closures a caller holds at once
MaxSubs            == 3    \* subscription numbers referred to at once
MaxCalls           == 2    \* times one cleanup closure is invoked
MaxTail            == 2    \* addresses of a batch after its run of malformed ones
MaxRpcFailures     == 1    \* getAccountInfo calls of one batch that reject
MaxNinLen          == 2    \* longest NIN
MaxCapExp          == 3
MaxJobTail         == 1
MaxDerived         == 2    \* addresses generated

(* ------------------------- program constants -------------------------- *)
maxRetries           == 5
confirmationTimeout  == 30000
PollInterval         == 1000
maxReconnectAttempts == 5
BATCH_SIZE           == 10
tokensPerInterval    == 100

NULL      == 0
NoSig     == 0
NoSession == [token |-> FALSE, refreshToken |-> FALSE]
Sigs      == 1..MaxBlockhash

(* --------------------- instance state as a record --------------------- *)
(* out collects the events without a signature that the running step emits; *)
(* capLogged tells that it logged 'Max WS reconnect attempts reached'         *)
Cur == [sasConfig |-> sasConfig, sasSession |-> sasSession,
        sasRefreshTimeout |-> sasRefreshTimeout, ws |-> ws,
        reconnectAttempts |-> reconnectAttempts, timers |-> timers,
        sockets |-> sockets, reconnectTimers |-> reconnectTimers,
        txEvents |-> txEvents, out |-> <<>>, capLogged |-> FALSE]

Apply(S) ==
  /\ sasConfig' = S.sasConfig
  /\ sasSession' = S.sasSession
  /\ sasRefreshTimeout' = S.sasRefreshTimeout
  /\ ws' = S.ws
  /\ reconnectAttempts' = S.reconnectAttempts
  /\ timers' = S.timers
  /\ sockets' = S.sockets
  /\ reconnectTimers' = S.reconnectTimers
  /\ txEvents' = S.txEvents

(* this.emit(kind) for the events that carry no signature *)
Emit(S, kind) == [S EXCEPT !.out = Append(@, kind)]

(* this.emit(TRANSACTION_*, ..., sig); src tells who emitted: "poll" or "stream" *)
EmitTx(S, type, sig, src) ==
  [S EXCEPT !.txEvents = Append(@, [type |-> type, sig |-> sig, src |-> src])]

(* clearTimeout(id): clearing a fired, cleared or null timer does nothing *)
ClearTimeout(S, id) == [S EXCEPT !.timers = @ \ {id}]

(* the least positive number outside used: the id of a new runtime object *)
FreshId(used) == CHOOSE i \in 1..(Cardinality(used) + 1) :
                   i \notin used /\ \A j \in 1..(i - 1) : j \in used

(* the table without s: a socket that is closed, or whose handlers were set *)
(* to null, never calls back                                                *)
Forget(tbl, s) == [x \in DOMAIN tbl \ {s} |-> tbl[x]]

(* ------------------------------ session ------------------------------- *)

CleanupWebsocket(S) ==
  IF S.ws = NULL THEN S
  ELSE [S EXCEPT !.sockets = Forget(@, S.ws),
                 !.ws = NULL]

CleanupSession_KeepTimer(S) ==
  [CleanupWebsocket(S) EXCEPT !.sasSession = NoSession]

CleanupSession_KeepSocket(S) ==
  LET S1 == IF S.sasRefreshTimeout # NULL
            THEN [ClearTimeout(S, S.sasRefreshTimeout) EXCEPT !.sasRefreshTimeout = NULL]
            ELSE S
  IN  [S1 EXCEPT !.sasSession = NoSession]

CleanupSession(S) ==
  LET S1 == IF S.sasRefreshTimeout # NULL
            THEN [ClearTimeout(S, S.sasRefreshTimeout) EXCEPT !.sasRefreshTimeout = NULL]
            ELSE S
      S2 == CleanupWebsocket(S1)
  IN  [S2 EXCEPT !.sasSession = NoSession]

SetupSessionRefresh_NoClear(S) ==
  IF \/ S.sasSession = NoSession
     \/ ~S.sasConfig.autoRefresh
     \/ ~S.sasSession.refreshToken
  THEN S
  ELSE LET id == FreshId(S.timers \cup {S.sasRefreshTimeout})
       IN  [S EXCEPT !.timers = @ \cup {id},
                     !.sasRefreshTimeout = id]

SetupSessionRefresh(S) ==
  IF \/ S.sasSession = NoSession
     \/ ~S.sasConfig.autoRefresh
     \/ ~S.sasSession.refreshToken
  THEN S
  ELSE LET S1 == IF S.sasRefreshTimeout # NULL
                 THEN ClearTimeout(S, S.sasRefreshTimeout) ELSE S
           id == FreshId(S.timers \cup {S.sasRefreshTimeout})
       IN  [S1 EXCEPT !.timers = @ \cup {id},
                      !.sasRefreshTimeout = id]

ScheduleReconnect_NoCap(S) ==
  IF S.sasSession = NoSession THEN S
  ELSE [S EXCEPT !.reconnectAttempts = @ + 1,
                 !.reconnectTimers = @ + 1]

ScheduleReconnect(S) ==
  IF S.sasSession = NoSession THEN S
  ELSE IF S.reconnectAttempts >= maxReconnectAttempts
       THEN [S EXCEPT !.capLogged = TRUE]
  ELSE [S EXCEPT !.reconnectAttempts = @ + 1,
                 !.reconnectTimers = @ + 1]

(* ctorThrows: new WebSocket(...) raised *)
InitializeWebSocketConnection(S, ctorThrows) ==
  IF S.ws # NULL THEN S
  ELSE IF ~S.sasConfig.wsEndpoint THEN S
  ELSE IF S.sasSession = NoSession THEN S
  ELSE IF ctorThrows THEN ScheduleReconnect(S)
  ELSE LET id == FreshId(DOMAIN S.sockets)
       IN  [S EXCEPT !.ws = id,
                     !.sockets = @ @@ (id :> "connecting")]

(* ---------------------------- stream events --------------------------- *)
(* A message is what JSON.parse gave: its type tag, the signature of its    *)
(* data (NoSig when absent) and whether data.publicKey is "valid",          *)
(* "invalid" or "none".  type "malformed" stands for a JSON.parse failure.  *)
TxMsgs ==
  [type : {"transactionConfirmed", "transactionFailed"}, sig : Sigs \cup {NoSig}, key : {"none"}]
SessionMsgs ==
  [type : {"accountChange"}, sig : {NoSig}, key : {"valid", "invalid", "none"}]
  \cup [type : {"sessionExpired", "other", "malformed"}, sig : {NoSig}, key : {"none"}]
Msgs == TxMsgs \cup SessionMsgs

HandleSASEvent(S, ev) ==
  CASE ev.type = "accountChange" ->
         IF ev.key = "valid" THEN Emit(S, "account_changed") ELSE S
    [] ev.type = "sessionExpired" ->
         CleanupSession(Emit(S, "sas_session_expired"))
    [] ev.type = "transactionConfirmed" ->
         IF ev.sig # NoSig THEN EmitTx(S, "transaction_confirmed", ev.sig, "stream") ELSE S
    [] ev.type = "transactionFailed" ->
         EmitTx(S, "transaction_failed", ev.sig, "stream")
    [] OTHER -> Emit(S, "sas:other")

(* ws.onmessage: JSON.parse failures are logged and dropped *)
OnMessageHandler(S, ev) ==
  IF ev.type = "malformed" THEN S ELSE HandleSASEvent(S, ev)

(* ------------------------------ actions ------------------------------- *)
Observed == {"LogoutReturn", "RefreshFail", "RefreshOk", "ShutdownReturn"}
NoStep   == [op |-> "", arg |-> "", out |-> <<>>]
(* a step in which scheduleReconnect gave up is recorded as "ReconnectCap" *)
Step(op, arg, S) ==
  last' = IF S.capLogged THEN [op |-> "ReconnectCap", arg |-> op, out |-> S.out]
          ELSE IF op \in Observed THEN [op |-> op, arg |-> arg, out |-> S.out]
          ELSE NoStep

(* authenticateWithSAS up to its await fetch(...) *)
AuthCall ==
  /\ authInFlight < MaxAuthInFlight
  /\ IF ~sasConfig.configured
     THEN /\ Apply(Cur)                       \* throws 'SAS not configured'
          /\ authInFlight' = authInFlight
          /\ Step("AuthCall", "notConfigured", Cur)
     ELSE /\ Apply(Emit(Cur, "sas_authentication_started"))
          /\ authInFlight' = authInFlight + 1
          /\ Step("AuthCall", "awaiting", Cur)
  /\ UNCHANGED <<refreshInFlight, logoutInFlight>>
  /\ UNCHANGED <<txVars, auxVars>>

(* the session authenticateWithSAS stores from an OK response with a token *)
AuthSession(S, hasRT) ==
  [S EXCEPT !.sasSession = [token |-> TRUE, refreshToken |-> hasRT]]

(* authenticateWithSAS after an OK response: lines 199-215 *)
AuthSucceed(S, hasRT, ctorThrows) ==
  LET S1 == AuthSession(S, hasRT)
      S2 == IF S1.sasConfig.autoRefresh /\ S1.sasSession.refreshToken
            THEN SetupSessionRefresh(S1) ELSE S1
      S3 == IF S2.sasConfig.wsEndpoint
            THEN InitializeWebSocketConnection(S2, ctorThrows) ELSE S2
  IN  Emit(S3, "sas_authentication_completed")

AuthRespOk(hasRT, ctorThrows) ==
  /\ authInFlight > 0
  /\ LET S == AuthSucceed(Cur, hasRT, ctorThrows)
     IN  /\ S.reconnectTimers <= MaxReconnectTimers
         /\ Apply(S)
         /\ Step("AuthRespOk", "", S)
  /\ authInFlight' = authInFlight - 1
  /\ UNCHANGED <<refreshInFlight, logoutInFlight>>
  /\ UNCHANGED <<txVars, auxVars>>

(* non-OK status, body without token, or fetch rejected *)
AuthRespFail ==
  /\ authInFlight > 0
  /\ Apply(Emit(Cur, "sas_authentication_failed"))
  /\ authInFlight' = authInFlight - 1
  /\ Step("AuthRespFail", "", Cur)
  /\ UNCHANGED <<refreshInFlight, logoutInFlight>>
  /\ UNCHANGED <<txVars, auxVars>>

(* the catch of the refresh timer callback: lines 232-236 *)
RefreshFailed_Retry(S) == SetupSessionRefresh(Emit(S, "sas_session_expired"))

RefreshFailed(S) == CleanupSession(Emit(S, "sas_session_expired"))

(* the refresh timer fires: the callback runs refreshSASSession up to its fetch *)
RefreshTimerFire(t) ==
  /\ t \in timers
  /\ Cardinality(DOMAIN refreshInFlight) < MaxRefreshInFlight
  /\ LET S == [Cur EXCEPT !.timers = @ \ {t}]
     IN  IF S.sasSession = NoSession \/ ~S.sasConfig.configured
         THEN /\ Apply(RefreshFailed(S))       \* 'No SAS session to refresh'
              /\ UNCHANGED refreshInFlight
              /\ Step("RefreshFail", "noSession", RefreshFailed(S))
         ELSE /\ Apply(S)
              /\ refreshInFlight' = refreshInFlight @@
                                      (FreshId(DOMAIN refreshInFlight) :> FALSE)
              /\ Step("RefreshTimerFire", "awaiting", S)
  /\ UNCHANGED <<authInFlight, logoutInFlight>>
  /\ UNCHANGED <<txVars, auxVars>>

(* does the object literal of lines 263-268 raise?  body.refreshToken ??       *)
(* this.sasSession.refreshToken dereferences a null session when the body has *)
(* no refresh token.                                                          *)
RefreshInstallThrows(S, bodyRT) == ~bodyRT /\ S.sasSession = NoSession

(* lines 263-271 *)
RefreshInstall(S, bodyRT) ==
  LET S1 == [S EXCEPT !.sasSession = [token |-> TRUE,
                                      refreshToken |-> bodyRT \/ S.sasSession.refreshToken]]
  IN  SetupSessionRefresh(S1)

(* an OK refresh response carrying a token; bodyRT: it carries a refresh token too *)
RefreshRespOk(id, bodyRT) ==
  /\ id \in DOMAIN refreshInFlight
  /\ IF RefreshInstallThrows(Cur, bodyRT)
     THEN /\ Apply(RefreshFailed(Cur))
          /\ refreshInFlight' = Forget(refreshInFlight, id)
          /\ Step("RefreshFail", "typeError", RefreshFailed(Cur))
     ELSE /\ Apply(RefreshInstall(Cur, bodyRT))
          /\ refreshInFlight' = [x \in DOMAIN refreshInFlight \ {id} |-> TRUE]
          /\ Step("RefreshOk", IF refreshInFlight[id] THEN "afterPeer" ELSE "first",
                  RefreshInstall(Cur, bodyRT))
  /\ UNCHANGED <<authInFlight, logoutInFlight>>
  /\ UNCHANGED <<txVars, auxVars>>

(* non-OK status, body without token, or fetch rejected *)
RefreshRespFail(id, why) ==
  /\ id \in DOMAIN refreshInFlight
  /\ refreshInFlight' = Forget(refreshInFlight, id)
  /\ Apply(RefreshFailed(Cur))
  /\ Step("RefreshFail", why, RefreshFailed(Cur))
  /\ UNCHANGED <<authInFlight, logoutInFlight>>
  /\ UNCHANGED <<txVars, auxVars>>

(* logoutFromSAS up to its await fetch(...), or all of it when there is no session *)
LogoutCall ==
  /\ logoutInFlight < MaxLogoutInFlight
  /\ IF sasSession = NoSession \/ ~sasConfig.configured
     THEN /\ Apply(CleanupSession(Cur))
          /\ UNCHANGED logoutInFlight
          /\ Step("LogoutReturn", "noSession", CleanupSession(Cur))
     ELSE /\ Apply(Cur)
          /\ logoutInFlight' = logoutInFlight + 1
          /\ Step("LogoutCall", "awaiting", Cur)
  /\ UNCHANGED <<authInFlight, refreshInFlight>>
  /\ UNCHANGED <<txVars, auxVars>>

(* the logout request settles: ok, error status, or network error; finally cleanupSession *)
LogoutResp(outcome) ==
  /\ logoutInFlight > 0
  /\ logoutInFlight' = logoutInFlight - 1
  /\ Apply(CleanupSession(Cur))
  /\ Step("LogoutReturn", outcome, CleanupSession(Cur))
  /\ UNCHANGED <<authInFlight, refreshInFlight>>
  /\ UNCHANGED <<txVars, auxVars>>

(* ------------------------------ socket -------------------------------- *)
Live(s) == s \in DOMAIN sockets

(* ws.onopen *)
WsOpen(s) ==
  /\ Live(s) /\ sockets[s] = "connecting"
  /\ Apply([Cur EXCEPT !.sockets[s] = "open", !.reconnectAttempts = 0])
  /\ Step("WsOpen", "", Cur)
  /\ UNCHANGED callVars
  /\ UNCHANGED <<txVars, auxVars>>

(* ws.onerror: this.ws?.close() *)
OnError(S) ==
  IF S.ws = NULL THEN S
  ELSE [S EXCEPT !.sockets[S.ws] = "closing"]

(* socket s fails: its error event is delivered, and the runtime closes it *)
WsError(s) ==
  /\ Live(s) /\ sockets[s] \in {"connecting", "open"}
  /\ Apply(OnError([Cur EXCEPT !.sockets[s] = "closing"]))
  /\ Step("WsError", "", Cur)
  /\ UNCHANGED callVars
  /\ UNCHANGED <<txVars, auxVars>>

(* ws.onclose: this.ws = null; this.scheduleReconnect() *)
OnClose(S) == ScheduleReconnect([S EXCEPT !.ws = NULL])

(* socket s is closed (by the peer, by a failure, or after close()): its close event *)
WsClose(s) ==
  /\ Live(s)
  /\ LET S == OnClose([Cur EXCEPT !.sockets = Forget(@, s)])
     IN  /\ S.reconnectTimers <= MaxReconnectTimers
         /\ Apply(S)
         /\ Step("WsClose", "", S)
  /\ UNCHANGED callVars
  /\ UNCHANGED <<txVars, auxVars>>

StreamEvents(log) == Len(SelectSeq(log, LAMBDA e : e.src = "stream"))

(* ws.onmessage *)
WsMessage(s, ev) ==
  /\ Live(s) /\ sockets[s] \in {"open", "closing"}
  /\ LET S == OnMessageHandler(Cur, ev)
     IN  /\ StreamEvents(S.txEvents) <= MaxMsgs
         /\ Apply(S)
         /\ Step("WsMessage", ev.type, S)
  /\ UNCHANGED callVars
  /\ UNCHANGED <<txVars, auxVars>>

(* a reconnect timer fires: () => this.initializeWebSocketConnection() *)
ReconnectFire(ctorThrows) ==
  /\ reconnectTimers > 0
  /\ LET S == InitializeWebSocketConnection([Cur EXCEPT !.reconnectTimers = @ - 1], ctorThrows)
     IN  /\ S.reconnectTimers <= MaxReconnectTimers
         /\ Apply(S)
         /\ Step("ReconnectFire", "", S)
  /\ UNCHANGED callVars
  /\ UNCHANGED <<txVars, auxVars>>

(* ------------------------ sendTransactionWithRetry -------------------- *)
RetryChoices == (0..MaxRetries) \cup {maxRetries}    \* options.retries ?? this.maxRetries

(* transaction.sign(...): the signature is a function of the message, hence of the blockhash *)
SigOf(b) == b

(* for (...; attempt <= retries; ...) *)
LoopCond(a, r) == a <= r

(* line 567: errors rethrown by the outer catch *)
IsFatal_OnlyTimeout(err) == err = "TransactionTimeoutError"

IsFatal(err) == err \in {"TransactionFailedError", "TransactionTimeoutError"}

(* line 569: if (attempt < retries) *)
HasRetryBudget_OneLess(a, r) == a + 1 < r

HasRetryBudget(a, r) == a < r

(* the outer catch, lines 565-578: what the submission does with err *)
OuterCatch(err) ==
  IF IsFatal(err) THEN "rethrow"
  ELSE IF HasRetryBudget(attempt, retries) THEN "retry"
  ELSE "exhausted"

(* the outer catch applied to err raised with instance state S *)
Caught(S, err) ==
  LET what == OuterCatch(err)
  IN  /\ lastError' = err
      /\ CASE what = "rethrow" ->
                /\ txPc' = "done" /\ txResult' = err
                /\ attempt' = attempt
                /\ Apply(S)
           [] what = "retry" ->
                /\ txPc' = "backoff" /\ txResult' = txResult
                /\ attempt' = attempt
                /\ Apply(S)
           [] OTHER ->
                /\ txPc' = "done" /\ txResult' = "BlockchainError"
                /\ attempt' = attempt
                /\ Apply(S)

(* sendTransactionWithRetry is called: the loop is entered and getLatestBlockhash issued *)
Submit(r) ==
  /\ txPc = "idle"
  /\ r \in RetryChoices
  /\ retries' = r
  /\ attempt' = 0
  /\ IF LoopCond(0, r)
     THEN txPc' = "awaitBlockhash" /\ nFetch' = nFetch + 1 /\ txResult' = txResult
     ELSE txPc' = "done" /\ nFetch' = nFetch /\ txResult' = "BlockchainError"
  /\ UNCHANGED <<last, rejected, auxVars>>
  /\ UNCHANGED slot
  /\ UNCHANGED <<blockhash, lastValidBlockHeight, signature, elapsed, lastError, nSend>>
  /\ UNCHANGED <<instVars, callVars>>

(* getLatestBlockhash resolves: sign, serialize, issue sendRawTransaction *)
BlockhashOk(b, h) ==
  /\ txPc = "awaitBlockhash"
  /\ blockhash' = b /\ lastValidBlockHeight' = h
  /\ nSend' = nSend + 1
  /\ txPc' = "awaitSend"
  /\ UNCHANGED <<last, rejected, auxVars>>
  /\ UNCHANGED slot
  /\ UNCHANGED <<retries, attempt, signature, elapsed, txResult, lastError, nFetch>>
  /\ UNCHANGED <<instVars, callVars>>

(* getLatestBlockhash rejects *)
BlockhashFail ==
  /\ txPc = "awaitBlockhash"
  /\ Caught(Cur, "blockhashError")
  /\ UNCHANGED <<last, rejected, auxVars>>
  /\ UNCHANGED slot
  /\ UNCHANGED <<retries, blockhash, lastValidBlockHeight, signature, elapsed, nFetch, nSend>>
  /\ UNCHANGED callVars

(* while (Date.now() - start < this.confirmationTimeout) *)
PollCond_Forever(e) == TRUE

PollCond(e) == e < confirmationTimeout

(* the catch of lines 561-564 followed by the outer catch *)
PollFailed(S, err) == Caught(EmitTx(S, "transaction_failed", signature', "poll"), err)

(* sendRawTransaction resolves: emit SENT, enter waitForConfirmation *)
SendOk ==
  /\ txPc = "awaitSend"
  /\ signature' = SigOf(blockhash)
  /\ elapsed' = 0
  /\ slot' = 0
  /\ LET S == EmitTx(Cur, "transaction_sent", SigOf(blockhash), "poll")
     IN  IF PollCond(0)
         THEN /\ txPc' = "awaitStatus"
              /\ Apply(S)
              /\ UNCHANGED <<attempt, txResult, lastError>>
         ELSE PollFailed(S, "TransactionTimeoutError")
  /\ UNCHANGED <<last, rejected, auxVars>>
  /\ UNCHANGED <<retries, blockhash, lastValidBlockHeight, nFetch, nSend>>
  /\ UNCHANGED callVars

(* sendRawTransaction rejects *)
SendFail_EmitsSent ==
  /\ txPc = "awaitSend"
  /\ Caught(EmitTx(Cur, "transaction_sent", SigOf(blockhash), "poll"), "sendError")
  /\ UNCHANGED <<last, rejected, auxVars>>
  /\ UNCHANGED slot
  /\ UNCHANGED <<retries, blockhash, lastValidBlockHeight, signature, elapsed, nFetch, nSend>>
  /\ UNCHANGED callVars

SendFail ==
  /\ txPc = "awaitSend"
  /\ Caught(Cur, "sendError")
  /\ UNCHANGED <<last, rejected, auxVars>>
  /\ UNCHANGED slot
  /\ UNCHANGED <<retries, blockhash, lastValidBlockHeight, signature, elapsed, nFetch, nSend>>
  /\ UNCHANGED callVars

(* getSignatureStatuses resolves with info.err set *)
StatusErr ==
  /\ txPc = "awaitStatus"
  /\ UNCHANGED signature
  /\ PollFailed(Cur, "TransactionFailedError")
  /\ rejected' = <<nFetch, nSend>>
  /\ UNCHANGED <<last, auxVars>>
  /\ UNCHANGED slot
  /\ UNCHANGED <<retries, blockhash, lastValidBlockHeight, elapsed, nFetch, nSend>>
  /\ UNCHANGED callVars

(* getSignatureStatuses resolves with confirmationStatus confirmed or finalized *)
StatusConfirmed(status) ==
  /\ txPc = "awaitStatus"
  /\ status \in {"confirmed", "finalized"}
  /\ Apply(EmitTx(Cur, "transaction_confirmed", signature, "poll"))
  /\ txPc' = "done" /\ txResult' = "ok"
  /\ UNCHANGED <<last, rejected, auxVars>>
  /\ UNCHANGED slot
  /\ UNCHANGED <<retries, attempt, blockhash, lastValidBlockHeight, signature, elapsed,
                 lastError, nFetch, nSend>>
  /\ UNCHANGED callVars

(* getSignatureStatuses resolves with no info or status processed, or rejects: getSlot is issued *)
StatusPending(status) ==
  /\ txPc = "awaitStatus"
  /\ status \in {"null", "processed", "rpcError"}
  /\ txPc' = "awaitSlot"
  /\ UNCHANGED <<last, rejected, auxVars>>
  /\ UNCHANGED slot
  /\ UNCHANGED <<retries, attempt, blockhash, lastValidBlockHeight, signature, elapsed,
                 txResult, lastError, nFetch, nSend>>
  /\ UNCHANGED <<instVars, callVars>>

(* lines 511-518: what leaves the try/catch around getSlot.  slot = 0 stands   *)
(* for a rejected getSlot.  The TransactionTimeoutError of line 514 is raised  *)
(* inside the try and caught by the catch of line 516.                         *)
SlotCheck(s, lvh) ==
  IF s = 0 THEN "ignored"
  ELSE IF s > lvh THEN "ignored"
  ELSE "continue"

(* getSlot settles; then sleep(1000) *)
SlotResp(s) ==
  /\ txPc = "awaitSlot"
  /\ SlotCheck(s, lastValidBlockHeight) \in {"ignored", "continue"}
  /\ slot' = s
  /\ txPc' = "pollSleep"
  /\ UNCHANGED <<last, rejected, auxVars>>
  /\ UNCHANGED <<retries, attempt, blockhash, lastValidBlockHeight, signature, elapsed,
                 txResult, lastError, nFetch, nSend>>
  /\ UNCHANGED <<instVars, callVars>>

(* sleep(1000) is over: the loop condition is evaluated again *)
PollSleepDone ==
  /\ txPc = "pollSleep"
  /\ elapsed' = elapsed + PollInterval
  /\ UNCHANGED signature
  /\ IF PollCond(elapsed + PollInterval)
     THEN /\ txPc' = "awaitStatus"
          /\ UNCHANGED <<attempt, txResult, lastError>>
          /\ UNCHANGED instVars
     ELSE PollFailed(Cur, "TransactionTimeoutError")
  /\ UNCHANGED <<last, rejected, auxVars>>
  /\ UNCHANGED slot
  /\ UNCHANGED <<retries, blockhash, lastValidBlockHeight, nFetch, nSend>>
  /\ UNCHANGED callVars

(* the backoff sleep is over: attempt++, loop condition, next getLatestBlockhash *)
BackoffDone ==
  /\ txPc = "backoff"
  /\ attempt' = attempt + 1
  /\ IF LoopCond(attempt + 1, retries)
     THEN txPc' = "awaitBlockhash" /\ nFetch' = nFetch + 1 /\ txResult' = txResult
     ELSE txPc' = "done" /\ nFetch' = nFetch /\ txResult' = "BlockchainError"
  /\ UNCHANGED <<last, rejected, auxVars>>
  /\ UNCHANGED slot
  /\ UNCHANGED <<retries, blockhash, lastValidBlockHeight, signature, elapsed, lastError,
                 nSend>>
  /\ UNCHANGED <<instVars, callVars>>

(* ---------------------- account and log listeners --------------------- *)
(* listenToAccountChanges, listenToProgramLogs and shutdown contain no await:  *)
(* each call is one step.  The connection names a subscription by a number it *)
(* never hands out twice; a number is reused here once nothing refers to it.  *)
Keys == {"k1", "k2"}

NoCleanup == [key |-> "", first |-> FALSE, nth |-> 0, removals |-> 0,
              registered |-> FALSE, regChanged |-> FALSE]

(* own: the subscription the handle's call created; removed: the one the     *)
(* invocation removed at the connection; before: logsSubscriptionId before it *)
NoLogsCleanup == [own |-> NULL, removed |-> NULL, before |-> NULL]

(* the subscription numbers something still refers to *)
SubsInUse ==
  (DOMAIN upstream
     \cup {accountChangeListeners[k] : k \in DOMAIN accountChangeListeners}
     \cup {c.subId : c \in handles}
     \cup {logsSubscriptionId}) \ {NULL}

(* connection.removeAccountChangeListener(id) / removeOnLogsListener(id) *)
RemoveListener(up, id) == Forget(up, id)

(* listenToAccountChanges(account): lines 422-453 *)
ListenToAccountChanges(k) ==
  /\ IF k \in DOMAIN accountChangeListeners
     THEN /\ handles' = handles \cup {[key |-> k, subId |-> accountChangeListeners[k],
                                       deletes |-> FALSE, calls |-> 0]}
          /\ UNCHANGED <<accountChangeListeners, upstream>>
     ELSE LET subId == FreshId(SubsInUse)
          IN  /\ subId <= MaxSubs
              /\ upstream' = upstream @@ (subId :> k)
              /\ accountChangeListeners' = accountChangeListeners @@ (k :> subId)
              /\ handles' = handles \cup {[key |-> k, subId |-> subId,
                                           deletes |-> TRUE, calls |-> 0]}
  /\ Cardinality(handles') <= MaxHandles
  /\ lastCleanup' = NoCleanup
  /\ logsCleanup' = NoLogsCleanup
  /\ UNCHANGED logsSubscriptionId
  /\ UNCHANGED <<instVars, callVars, txVars, last>>
  /\ UNCHANGED <<verifyVars, batchVars, addrVars, limitVars, moreVars>>

(* listenToProgramLogs(callback): lines 455-486 *)
ListenToProgramLogs ==
  /\ LET up1   == IF logsSubscriptionId # NULL
                  THEN RemoveListener(upstream, logsSubscriptionId) ELSE upstream
         subId == FreshId(SubsInUse \ {logsSubscriptionId})
     IN  /\ subId <= MaxSubs
         /\ upstream' = up1 @@ (subId :> "logs")
         /\ logsSubscriptionId' = subId
         /\ handles' = handles \cup {[key |-> "logs", subId |-> subId, deletes |-> TRUE,
                                      calls |-> 0]}
  /\ Cardinality(handles') <= MaxHandles
  /\ lastCleanup' = NoCleanup
  /\ logsCleanup' = NoLogsCleanup
  /\ UNCHANGED accountChangeListeners
  /\ UNCHANGED <<instVars, callVars, txVars, last>>
  /\ UNCHANGED <<verifyVars, batchVars, addrVars, limitVars, moreVars>>

(* the closure returned by listenToAccountChanges is invoked: lines 426-432    *)
(* for a repeated registration, lines 445-452 for a first one                  *)
AccountCleanup(c) ==
  LET reg == IF c.deletes
             THEN Forget(accountChangeListeners, c.key) ELSE accountChangeListeners
  IN  /\ upstream' = RemoveListener(upstream, c.subId)
      /\ accountChangeListeners' = reg
      /\ UNCHANGED logsSubscriptionId
      /\ logsCleanup' = NoLogsCleanup
      /\ lastCleanup' = [key |-> c.key, first |-> c.deletes, nth |-> c.calls + 1,
                         removals |-> 1,
                         registered |-> c.key \in DOMAIN reg,
                         regChanged |-> reg # accountChangeListeners]

(* the closure returned by listenToProgramLogs is invoked: lines 475-485.  The *)
(* closure reads this.logsSubscriptionId; c.subId is what its call created.   *)
LogsCleanup(c) ==
  /\ IF logsSubscriptionId # NULL
     THEN /\ upstream' = RemoveListener(upstream, logsSubscriptionId)
          /\ logsSubscriptionId' = NULL
     ELSE UNCHANGED <<upstream, logsSubscriptionId>>
  /\ UNCHANGED accountChangeListeners
  /\ lastCleanup' = NoCleanup
  /\ logsCleanup' = [own |-> c.subId, removed |-> logsSubscriptionId,
                     before |-> logsSubscriptionId]

(* a caller invokes the cleanup closure c that it holds *)
InvokeCleanup(c) ==
  /\ c \in handles
  /\ c.calls < MaxCalls
  /\ IF c.key = "logs" THEN LogsCleanup(c) ELSE AccountCleanup(c)
  /\ handles' = (handles \ {c}) \cup {[c EXCEPT !.calls = @ + 1]}
  /\ UNCHANGED <<instVars, callVars, txVars, last>>
  /\ UNCHANGED <<verifyVars, batchVars, addrVars, limitVars, moreVars>>

(* the caller lets go of a cleanup closure *)
DropHandle(c) ==
  /\ c \in handles
  /\ handles' = handles \ {c}
  /\ lastCleanup' = NoCleanup
  /\ logsCleanup' = NoLogsCleanup
  /\ UNCHANGED <<accountChangeListeners, logsSubscriptionId, upstream>>
  /\ UNCHANGED <<instVars, callVars, txVars, last>>
  /\ UNCHANGED <<verifyVars, batchVars, addrVars, limitVars, moreVars>>

(* shutdown(): lines 709-736.  removeAllListeners() detaches the subscribers  *)
(* of the EventEmitter, which are not part of this model.                     *)
Shutdown ==
  /\ LET ids == {accountChangeListeners[k] : k \in DOMAIN accountChangeListeners}
                  \cup (IF logsSubscriptionId # NULL THEN {logsSubscriptionId} ELSE {})
     IN  upstream' = [id \in DOMAIN upstream \ ids |-> upstream[id]]
  /\ accountChangeListeners' = <<>>
  /\ logsSubscriptionId' = NULL
  /\ Apply(CleanupSession(Cur))
  /\ Step("ShutdownReturn", "", CleanupSession(Cur))
  /\ lastCleanup' = NoCleanup
  /\ logsCleanup' = NoLogsCleanup
  /\ UNCHANGED handles
  /\ UNCHANGED <<callVars, txVars>>
  /\ UNCHANGED <<verifyVars, batchVars, addrVars, limitVars, moreVars>>

ListenInit ==
  /\ accountChangeListeners = <<>>
  /\ logsSubscriptionId = NULL
  /\ upstream = <<>>
  /\ handles = {}
  /\ lastCleanup = NoCleanup
  /\ logsCleanup = NoLogsCleanup

(* -------------------------- verifyAttestation ------------------------- *)
(* What verifyAttestation reads: the address string, what getAccountInfo      *)
(* does, the owner of the account and the bytes of its data.  The data are    *)
(* described by what JSON.parse makes of them and, for an object, by its      *)
(* fields: an id is missing, the empty string, a non-empty string or a number;*)
(* the timestamp is missing, null, 0, a past or future number, or a string.   *)
AddrKinds  == {"empty", "unparsable", "ok"}
RpcKinds   == {"rejects", "absent", "present"}
OwnerKinds == {"program", "other"}
TextKinds  == {"blank", "notJson", "jsonNull", "object"}
IdKinds    == {"missing", "empty", "string", "number"}
TypeKinds  == {"UNIVERSITY_ISSUED", "GOVERNMENT_ACCREDITED", "other", "missing"}
TimeKinds  == {"missing", "null", "zero", "past", "future", "string"}

Payloads == [text : TextKinds, credentialId : IdKinds, studentId : IdKinds,
             universityId : IdKinds, attestationType : TypeKinds, timestamp : TimeKinds]

(* !x of JavaScript for an id field *)
Falsy(id) == id \in {"missing", "empty"}

(* parseAttestationData: <<>> for null, else <<the record>>; a missing         *)
(* timestamp becomes Date.now(), every other one is kept by the spread        *)
ParseAttestationData(raw) ==
  IF raw.text # "object" THEN <<>>
  ELSE IF Falsy(raw.credentialId) \/ Falsy(raw.studentId) \/ Falsy(raw.universityId)
       THEN <<>>
  ELSE << [raw EXCEPT !.timestamp = IF @ = "missing" THEN "now" ELSE @] >>

(* validateAttestationStructure *)
ValidateAttestationStructure(parsed) ==
  IF parsed = <<>> THEN FALSE
  ELSE LET data == parsed[1]
       IN  /\ data.credentialId = "string"
           /\ data.studentId = "string"
           /\ data.universityId = "string"
           /\ data.attestationType \in {"UNIVERSITY_ISSUED", "GOVERNMENT_ACCREDITED"}
           /\ ~ /\ data.timestamp \notin {"null", "zero"}          \* data.timestamp && ...
                /\ data.timestamp \in {"string", "future"}

Invalid(error) == [isValid |-> FALSE, error |-> error, data |-> <<>>]
NoResult == [isValid |-> FALSE, error |-> "", data |-> <<>>]

(* lines 641-648: <<>> when the address passes, else <<the result returned>> *)
AddressCheck(addr) ==
  CASE addr = "empty"      -> << Invalid("Invalid attestation address") >>
    [] addr = "unparsable" -> << Invalid("Invalid attestation address format") >>
    [] OTHER               -> <<>>

(* lines 651-659, with accountInfo what getAccountInfo resolved with *)
AccountCheck_FoundFirst(rpc, owner, raw) ==
  IF rpc = "absent" \/ owner # "program" THEN Invalid("Attestation account not found")
  ELSE LET parsed == ParseAttestationData(raw)
       IN  IF ValidateAttestationStructure(parsed)
           THEN [isValid |-> TRUE, error |-> "", data |-> parsed]
           ELSE Invalid("Attestation data invalid or malformed")

AccountCheck(rpc, owner, raw) ==
  IF rpc = "absent" THEN Invalid("Attestation account not found")
  ELSE IF owner # "program"
       THEN Invalid("Attestation account is not owned by expected program")
  ELSE LET parsed == ParseAttestationData(raw)
       IN  IF ValidateAttestationStructure(parsed)
           THEN [isValid |-> TRUE, error |-> "", data |-> parsed]
           ELSE Invalid("Attestation data invalid or malformed")

(* lines 650-664: what the call returns once getAccountInfo settled *)
AfterGetAccountInfo(rpc, owner, raw) ==
  IF rpc = "rejects" THEN Invalid("Verification failed")
  ELSE AccountCheck(rpc, owner, raw)

(* verifyAttestation is called in the world inp: it returns at once or awaits *)
(* getAccountInfo                                                            *)
VerifyCall(inp) ==
  /\ vPc = "idle"
  /\ vInput' = inp
  /\ IF AddressCheck(inp.addr) # <<>>
     THEN vPc' = "done" /\ vResult' = AddressCheck(inp.addr)[1]
     ELSE vPc' = "awaiting" /\ vResult' = vResult
  /\ UNCHANGED <<instVars, callVars, txVars, last>>
  /\ UNCHANGED <<listenVars, batchVars, addrVars, limitVars, moreVars>>

(* getAccountInfo resolves, with null or with an account *)
AccountInfoResolves ==
  /\ vPc = "awaiting"
  /\ vInput.rpc \in {"absent", "present"}
  /\ vPc' = "done"
  /\ vResult' = AfterGetAccountInfo(vInput.rpc, vInput.owner, vInput.raw)
  /\ UNCHANGED vInput
  /\ UNCHANGED <<instVars, callVars, txVars, last>>
  /\ UNCHANGED <<listenVars, batchVars, addrVars, limitVars, moreVars>>

(* getAccountInfo rejects: the catch of lines 660-664 *)
AccountInfoRejects ==
  /\ vPc = "awaiting"
  /\ vInput.rpc = "rejects"
  /\ vPc' = "done"
  /\ vResult' = AfterGetAccountInfo(vInput.rpc, vInput.owner, vInput.raw)
  /\ UNCHANGED vInput
  /\ UNCHANGED <<instVars, callVars, txVars, last>>
  /\ UNCHANGED <<listenVars, batchVars, addrVars, limitVars, moreVars>>

VerifyInputs == [addr : AddrKinds, rpc : RpcKinds, owner : OwnerKinds, raw : Payloads]

NoInput == [addr |-> "empty", rpc |-> "absent", owner |-> "program",
            raw |-> [text |-> "blank", credentialId |-> "missing", studentId |-> "missing",
                     universityId |-> "missing", attestationType |-> "missing",
                     timestamp |-> "missing"]]

VerifyInit ==
  /\ vInput = NoInput
  /\ vPc = "idle"
  /\ vResult = NoResult

(* ----------------------- batchVerifyAttestations ---------------------- *)
(* The addresses of a batch are taken from a small ledger: each names what    *)
(* verifyAttestation finds for it, apart from the fate of its RPC call.       *)
GoodPayload == [text |-> "object", credentialId |-> "string", studentId |-> "string",
                universityId |-> "string", attestationType |-> "UNIVERSITY_ISSUED",
                timestamp |-> "past"]

Addrs == {"", "notBase58", "good", "absent", "foreign", "garbled"}

Ledger(a) ==
  CASE a = ""          -> [addr |-> "empty", rpc |-> "absent", owner |-> "program", raw |-> GoodPayload]
    [] a = "notBase58" -> [addr |-> "unparsable", rpc |-> "absent", owner |-> "program", raw |-> GoodPayload]
    [] a = "good"      -> [addr |-> "ok", rpc |-> "present", owner |-> "program", raw |-> GoodPayload]
    [] a = "absent"    -> [addr |-> "ok", rpc |-> "absent", owner |-> "program", raw |-> GoodPayload]
    [] a = "foreign"   -> [addr |-> "ok", rpc |-> "present", owner |-> "other", raw |-> GoodPayload]
    [] OTHER           -> [addr |-> "ok", rpc |-> "present", owner |-> "program",
                           raw |-> [GoodPayload EXCEPT !.text = "notJson"]]

(* what verifyAttestation(a) returns when its RPC call, if any, has the fate rpc *)
(* ("resolved" or "rejected")                                                    *)
VerifyAttestation(a, rpc) ==
  LET inp == Ledger(a)
  IN  IF AddressCheck(inp.addr) # <<>> THEN AddressCheck(inp.addr)[1]
      ELSE AfterGetAccountInfo(IF rpc = "rejected" THEN "rejects" ELSE inp.rpc,
                               inp.owner, inp.raw)

(* attestationAddresses.slice(i, i + BATCH_SIZE), as the indices it covers *)
Chunk_Unbounded(i, n) == {j \in 1..n : i < j}

Chunk(i, n) == {j \in 1..n : i < j /\ j <= i + BATCH_SIZE}

(* batch.map(async ...) up to the first await of each call: a call whose      *)
(* address fails the format check has its result, the others await the RPC    *)
StartChunk(calls, addrs, i) ==
  [j \in DOMAIN calls |->
     IF j \in Chunk(i, Len(addrs))
     THEN IF AddressCheck(Ledger(addrs[j]).addr) # <<>>
          THEN [state |-> "settled", rpc |-> "none", res |-> VerifyAttestation(addrs[j], "none")]
          ELSE [state |-> "awaiting", rpc |-> "none", res |-> NoResult]
     ELSE calls[j]]

NotStarted == [state |-> "notStarted", rpc |-> "none", res |-> NoResult]

(* the lists tried: a run of pad malformed addresses followed by any tail *)
RECURSIVE Pad(_)
Pad(n) == IF n = 0 THEN <<>> ELSE <<"notBase58">> \o Pad(n - 1)

Tails == UNION {[1..n -> Addrs] : n \in 0..MaxTail}

(* lists of well-formed addresses long enough to fill a chunk *)
RECURSIVE Fill(_)
Fill(n) == IF n = 0 THEN <<>> ELSE <<"good">> \o Fill(n - 1)

ChunkInputs == {Fill(BATCH_SIZE + n) : n \in 0..MaxTail}

BatchInputs == {Pad(n) \o tl : n \in {0, BATCH_SIZE - 1, BATCH_SIZE}, tl \in Tails}

(* batchVerifyAttestations(addrs) is called: the first chunk is started *)
BatchCall(addrs) ==
  /\ bPc = "idle"
  /\ bAddrs' = addrs
  /\ bStart' = 0
  /\ results' = <<>>
  /\ IF addrs = <<>>
     THEN bPc' = "returned" /\ bCalls' = <<>>
     ELSE /\ bPc' = "chunk"
          /\ bCalls' = StartChunk([j \in 1..Len(addrs) |-> NotStarted], addrs, 0)
  /\ UNCHANGED <<instVars, callVars, txVars, last>>
  /\ UNCHANGED <<listenVars, verifyVars, addrVars, limitVars, moreVars>>

(* the getAccountInfo of call j settles; verifyAttestation returns *)
CallSettles(j, rpc) ==
  /\ bPc = "chunk"
  /\ j \in DOMAIN bCalls
  /\ bCalls[j].state = "awaiting"
  /\ rpc = "rejected" =>
       Cardinality({k \in DOMAIN bCalls : bCalls[k].rpc = "rejected"}) < MaxRpcFailures
  /\ bCalls' = [bCalls EXCEPT ![j] = [state |-> "settled", rpc |-> rpc,
                                      res |-> VerifyAttestation(bAddrs[j], rpc)]]
  /\ UNCHANGED <<bAddrs, bPc, bStart, results>>
  /\ UNCHANGED <<instVars, callVars, txVars, last>>
  /\ UNCHANGED <<listenVars, verifyVars, addrVars, limitVars, moreVars>>

(* batchResults.forEach(({ addr, res }) => (results[addr] = res)), for the     *)
(* calls from..to in the order of the batch                                   *)
RECURSIVE Collect_StopAtInvalid(_, _, _)
Collect_StopAtInvalid(res, from, to) ==
  IF from > to THEN res
  ELSE LET a == bAddrs[from]
           r == bCalls[from].res
           nxt == [x \in DOMAIN res \cup {a} |-> IF x = a THEN r ELSE res[x]]
       IN  IF r.isValid THEN Collect_StopAtInvalid(nxt, from + 1, to) ELSE nxt

RECURSIVE Collect(_, _, _)
Collect(res, from, to) ==
  IF from > to THEN res
  ELSE LET a == bAddrs[from]
           r == bCalls[from].res
       IN  Collect([x \in DOMAIN res \cup {a} |-> IF x = a THEN r ELSE res[x]],
                   from + 1, to)

Min(a, b) == IF a < b THEN a ELSE b

(* Promise.all resolves: the results of the chunk are stored; then the batch  *)
(* sleeps before its next chunk or returns                                    *)
ChunkDone ==
  /\ bPc = "chunk"
  /\ \A j \in Chunk(bStart, Len(bAddrs)) : bCalls[j].state = "settled"
  /\ results' = Collect(results, bStart + 1, Min(bStart + BATCH_SIZE, Len(bAddrs)))
  /\ bPc' = IF bStart + BATCH_SIZE < Len(bAddrs) THEN "sleep" ELSE "returned"
  /\ UNCHANGED <<bAddrs, bStart, bCalls>>
  /\ UNCHANGED <<instVars, callVars, txVars, last>>
  /\ UNCHANGED <<listenVars, verifyVars, addrVars, limitVars, moreVars>>

(* sleep(500) is over: i += BATCH_SIZE, the next chunk is started *)
BatchSleepDone ==
  /\ bPc = "sleep"
  /\ bStart' = bStart + BATCH_SIZE
  /\ bCalls' = StartChunk(bCalls, bAddrs, bStart + BATCH_SIZE)
  /\ bPc' = "chunk"
  /\ UNCHANGED <<bAddrs, results>>
  /\ UNCHANGED <<instVars, callVars, txVars, last>>
  /\ UNCHANGED <<listenVars, verifyVars, addrVars, limitVars, moreVars>>

BatchInit ==
  /\ bAddrs = <<>>
  /\ bPc = "idle"
  /\ bStart = 0
  /\ bCalls = <<>>
  /\ results = <<>>

(* -------------------------- address derivation ------------------------ *)
(* src/src/lib/solana/address-generation.ts, src/src/lib/utils/crypto.ts.     *)
(* A string is a sequence of the digits 1..Radix-1.                           *)
Radix == 3
Digits == 1..(Radix - 1)
Strings(n) == UNION {[1..k -> Digits] : k \in 0..n}
NINs  == Strings(MaxNinLen)
Salts == {<<1>>, <<2>>, <<1, 2>>}

(* SHA-256 of a string, taken to be injective: the number the string spells *)
RECURSIVE Sha256(_)
Sha256(s) == IF s = <<>> THEN 0 ELSE s[1] + Radix * Sha256(Tail(s))

(* generateSeedFromNIN(nin) with the salt set: the digest of nin + salt *)
GenerateSeedFromNIN_IgnoresLast(nin, slt) ==
  Sha256((IF nin = <<>> THEN nin ELSE SubSeq(nin, 1, Len(nin) - 1)) \o slt)

GenerateSeedFromNIN(nin, slt) == Sha256(nin \o slt)

(* Keypair.fromSeed(seed.slice(0, 32)).publicKey.toBase58(): the 32 bytes of   *)
(* the digest determine the key pair, one public key per seed                 *)
AddressOfSeed(seed) == 2 * seed + 1

GenerateAddressFromNIN(nin, slt) == AddressOfSeed(GenerateSeedFromNIN(nin, slt))

VerifyAddressForNIN(nin, address, slt) == GenerateAddressFromNIN(nin, slt) = address

NoCheck == [nin |-> <<>>, address |-> 0, out |-> "none"]

(* the process starts with NIN_SALT set *)
SetSalt(s) ==
  /\ salt = <<>>
  /\ salt' = s
  /\ UNCHANGED <<derived, checked>>
  /\ UNCHANGED <<instVars, callVars, txVars, last>>
  /\ UNCHANGED <<listenVars, verifyVars, batchVars, limitVars, moreVars>>

(* generateAddressFromNIN(nin); without salt generateSeedFromNIN throws *)
GenerateAddress(nin) ==
  /\ IF salt = <<>>
     THEN UNCHANGED derived
     ELSE LET r == [nin |-> nin, address |-> GenerateAddressFromNIN(nin, salt)]
          IN  /\ Cardinality(derived \cup {r}) <= MaxDerived
              /\ derived' = derived \cup {r}
  /\ checked' = NoCheck
  /\ UNCHANGED salt
  /\ UNCHANGED <<instVars, callVars, txVars, last>>
  /\ UNCHANGED <<listenVars, verifyVars, batchVars, limitVars, moreVars>>

(* verifyAddressForNIN(nin, address) *)
VerifyAddress(nin, address) ==
  /\ checked' = [nin |-> nin, address |-> address,
                 out |-> IF salt = <<>> THEN "threw"
                         ELSE IF VerifyAddressForNIN(nin, address, salt) THEN "true"
                         ELSE "false"]
  /\ UNCHANGED <<salt, derived>>
  /\ UNCHANGED <<instVars, callVars, txVars, last>>
  /\ UNCHANGED <<listenVars, verifyVars, batchVars, limitVars, moreVars>>

AddrInit ==
  /\ salt = <<>>
  /\ derived = {}
  /\ checked = NoCheck

(* ----------------------- NINService rate limiter ---------------------- *)
(* src/src/lib/services/NINService.ts: one RateLimiter for the module, built  *)
(* without fireImmediately, so that removeTokens resolves once the tokens     *)
(* are there; checkRateLimit(ip) does not use ip.                             *)
Ips == {"ip1", "ip2"}

(* return remaining >= 0 *)
CheckRateLimit(remaining) == remaining >= 0

(* generateAddress / verifyAddress called by ip: await rateLimiter.removeTokens(1) *)
LimitedCall(ip) ==
  /\ callState[ip] \in {"idle", "passed"}
  /\ IF tokensThisInterval < tokensPerInterval
     THEN /\ CheckRateLimit(tokensPerInterval - tokensThisInterval - 1)
          /\ tokensThisInterval' = tokensThisInterval + 1
          /\ served' = [served EXCEPT ![ip] = @ + 1]
          /\ callState' = [callState EXCEPT ![ip] = "passed"]
     ELSE /\ callState' = [callState EXCEPT ![ip] = "waiting"]
          /\ UNCHANGED <<tokensThisInterval, served>>
  /\ UNCHANGED <<instVars, callVars, txVars, last>>
  /\ UNCHANGED <<listenVars, verifyVars, batchVars, addrVars, moreVars>>

(* the interval of the limiter is over *)
IntervalElapsed ==
  /\ tokensThisInterval > 0
  /\ tokensThisInterval' = 0
  /\ served' = [ip \in Ips |-> 0]
  /\ UNCHANGED callState
  /\ UNCHANGED <<instVars, callVars, txVars, last>>
  /\ UNCHANGED <<listenVars, verifyVars, batchVars, addrVars, moreVars>>

(* removeTokens of a waiting call resolves with the tokens left *)
WaitOver(ip) ==
  /\ callState[ip] = "waiting"
  /\ tokensThisInterval < tokensPerInterval
  /\ CheckRateLimit(tokensPerInterval - tokensThisInterval - 1)
  /\ tokensThisInterval' = tokensThisInterval + 1
  /\ served' = [served EXCEPT ![ip] = @ + 1]
  /\ callState' = [callState EXCEPT ![ip] = "passed"]
  /\ UNCHANGED <<instVars, callVars, txVars, last>>
  /\ UNCHANGED <<listenVars, verifyVars, batchVars, addrVars, moreVars>>

LimitInit ==
  /\ tokensThisInterval = 0
  /\ served = [ip \in Ips |-> 0]
  /\ callState = [ip \in Ips |-> "idle"]

(* ------------------- the backoff of sendTransactionWithRetry ---------- *)
(* lines 565-573 seen from a caller whose attempts fail with errors that are  *)
(* retried: what is slept before each retry                                   *)
retryDelay == 1000
JitterSpan == 500

RECURSIVE Pow2(_)
Pow2(n) == IF n = 0 THEN 1 ELSE 2 * Pow2(n - 1)

(* Math.floor(Math.random() * 500): the least, a middle and the greatest value *)
Jitters == {0, JitterSpan \div 2, JitterSpan - 1}

(* this.retryDelay * Math.pow(2, attempt) + jitter *)
BackoffDelay(a, jitter) == retryDelay * Pow2(a) + jitter

(* options.retries *)
BackoffRetries == 0..(MaxCapExp + 3)

BackoffCall(r) ==
  /\ bkPc = "idle"
  /\ bkRetries' = r /\ bkAttempt' = 0 /\ slept' = <<>>
  /\ bkPc' = IF LoopCond(0, r) THEN "attempt" ELSE "failed"
  /\ UNCHANGED <<instVars, callVars, txVars, last>>
  /\ UNCHANGED <<listenVars, verifyVars, batchVars, addrVars, limitVars, jobVars>>

(* the attempt throws an error the outer catch does not rethrow *)
AttemptFails(jitter) ==
  /\ bkPc = "attempt"
  /\ IF HasRetryBudget(bkAttempt, bkRetries)
     THEN /\ slept' = Append(slept, BackoffDelay(bkAttempt, jitter))
          /\ bkPc' = "sleep"
     ELSE /\ slept' = slept
          /\ bkPc' = "failed"
  /\ UNCHANGED <<bkRetries, bkAttempt>>
  /\ UNCHANGED <<instVars, callVars, txVars, last>>
  /\ UNCHANGED <<listenVars, verifyVars, batchVars, addrVars, limitVars, jobVars>>

(* the attempt returns the signature, or throws an error that is rethrown *)
AttemptEnds ==
  /\ bkPc = "attempt"
  /\ bkPc' = "ended"
  /\ UNCHANGED <<bkRetries, bkAttempt, slept>>
  /\ UNCHANGED <<instVars, callVars, txVars, last>>
  /\ UNCHANGED <<listenVars, verifyVars, batchVars, addrVars, limitVars, jobVars>>

(* sleep(backoff + jitter) is over: continue; attempt++ *)
BackoffOver ==
  /\ bkPc = "sleep"
  /\ bkAttempt' = bkAttempt + 1
  /\ bkPc' = IF LoopCond(bkAttempt + 1, bkRetries) THEN "attempt" ELSE "failed"
  /\ UNCHANGED <<bkRetries, slept>>
  /\ UNCHANGED <<instVars, callVars, txVars, last>>
  /\ UNCHANGED <<listenVars, verifyVars, batchVars, addrVars, limitVars, jobVars>>

BackoffInit ==
  /\ bkPc = "idle" /\ bkRetries = 0 /\ bkAttempt = 0 /\ slept = <<>>

(* ---------------------- BatchVerificationService ---------------------- *)
(* One job.  startBatchVerification runs processBatch up to its first await   *)
(* before it returns; the forEach of lines 104-128 contains no await, so a    *)
(* chunk's results are recorded in one step.  The results array is held as    *)
(* the number of its entries.                                                 *)
JOB_BATCH_SIZE == 50

JobTotals == (0..MaxJobTail) \cup {JOB_BATCH_SIZE + k : k \in 0..MaxJobTail}

NoJob ==
  [status |-> "NONE", total |-> 0, processed |-> 0, valid |-> 0, invalid |-> 0,
   results |-> 0]

(* lines 49-59 *)
NewJob(n) == [NoJob EXCEPT !.status = "PENDING", !.total = n]

(* lines 104-128 applied to nv fulfilled-valid, ni fulfilled-invalid and ne   *)
(* rejected entries                                                           *)
ForEach(job, nv, ni, ne) ==
  [job EXCEPT !.results = @ + nv + ni + ne,
              !.valid = @ + nv,
              !.invalid = @ + ni + ne,
              !.processed = @ + nv + ni + ne]

(* lines 131-149: after the loop *)
AfterLoop(job, notify) ==
  /\ batchJob' = [job EXCEPT !.status = "COMPLETED"]
  /\ jPc' = IF notify THEN "notifyComplete" ELSE "ended"
  /\ jIndex' = jIndex

(* lines 150-172: the catch *)
Catch(job, notify) ==
  /\ batchJob' = [job EXCEPT !.status = "FAILED"]
  /\ jPc' = IF notify THEN "notifyFailed" ELSE "ended"
  /\ jIndex' = jIndex

StartBatchVerification(n, notify) ==
  /\ jPc = "idle"
  /\ jNotify' = notify
  /\ LET processing == [NewJob(n) EXCEPT !.status = "PROCESSING"]
     IN  IF 0 < n
         THEN batchJob' = processing /\ jPc' = "chunk" /\ jIndex' = 0
         ELSE AfterLoop(processing, notify)
  /\ UNCHANGED <<instVars, callVars, txVars, last>>
  /\ UNCHANGED <<listenVars, verifyVars, batchVars, addrVars, limitVars, backoffVars>>

(* Promise.allSettled resolves and the forEach runs; threw: the forEach meets *)
(* a rejection whose reason is null or undefined (result.reason.message)      *)
ChunkSettles(nv, ni, ne, threw) ==
  /\ jPc = "chunk"
  /\ LET size == Min(JOB_BATCH_SIZE, batchJob.total - jIndex)
         job  == ForEach(batchJob, nv, ni, ne)
     IN  /\ IF threw THEN nv + ni + ne < size ELSE nv + ni + ne = size
         /\ IF threw THEN Catch(job, jNotify)
            ELSE IF jIndex + JOB_BATCH_SIZE < batchJob.total
            THEN batchJob' = job /\ jPc' = "chunk" /\ jIndex' = jIndex + JOB_BATCH_SIZE
            ELSE AfterLoop(job, jNotify)
  /\ UNCHANGED jNotify
  /\ UNCHANGED <<instVars, callVars, txVars, last>>
  /\ UNCHANGED <<listenVars, verifyVars, batchVars, addrVars, limitVars, backoffVars>>

(* notificationService.send settles *)
NotifySettles(ok) ==
  /\ jPc \in {"notifyComplete", "notifyFailed"}
  /\ UNCHANGED jNotify
  /\ IF jPc = "notifyComplete" /\ ~ok
     THEN Catch(batchJob, jNotify)
     ELSE jPc' = "ended" /\ UNCHANGED <<batchJob, jIndex>>
  /\ UNCHANGED <<instVars, callVars, txVars, last>>
  /\ UNCHANGED <<listenVars, verifyVars, batchVars, addrVars, limitVars, backoffVars>>

JobInit ==
  /\ batchJob = NoJob /\ jPc = "idle" /\ jIndex = 0 /\ jNotify = FALSE

(* --------------------------- specifications --------------------------- *)
Configs ==
  {[configured |-> FALSE, autoRefresh |-> FALSE, wsEndpoint |-> FALSE]}
  \cup [configured : {TRUE}, autoRefresh : BOOLEAN, wsEndpoint : BOOLEAN]

Init ==
  /\ sasConfig \in Configs
  /\ sasSession = NoSession
  /\ sasRefreshTimeout = NULL
  /\ ws = NULL
  /\ reconnectAttempts = 0
  /\ timers = {}
  /\ sockets = <<>>
  /\ reconnectTimers = 0
  /\ txEvents = <<>>
  /\ authInFlight = 0
  /\ refreshInFlight = <<>>
  /\ logoutInFlight = 0
  /\ txPc = "idle" /\ retries = 0 /\ attempt = 0
  /\ blockhash = 0 /\ lastValidBlockHeight = 0 /\ signature = NoSig
  /\ elapsed = 0 /\ txResult = "none" /\ lastError = "none"
  /\ nFetch = 0 /\ nSend = 0 /\ slot = 0 /\ rejected = <<>>
  /\ last = NoStep
  /\ ListenInit
  /\ VerifyInit
  /\ BatchInit
  /\ AddrInit
  /\ LimitInit
  /\ BackoffInit
  /\ JobInit

TxNext ==
  \/ \E r \in RetryChoices : Submit(r)
  \/ \E b \in 1..MaxBlockhash, h \in 1..MaxHeight : BlockhashOk(b, h)
  \/ BlockhashFail
  \/ SendOk
  \/ SendFail
  \/ StatusErr
  \/ \E st \in {"confirmed", "finalized"} : StatusConfirmed(st)
  \/ \E st \in {"null", "processed", "rpcError"} : StatusPending(st)
  \/ \E s \in 0..(MaxHeight + 1) : SlotResp(s)
  \/ PollSleepDone
  \/ BackoffDone

SessionNext ==
  \/ AuthCall
  \/ \E rt \in BOOLEAN, ct \in BOOLEAN : AuthRespOk(rt, ct)
  \/ AuthRespFail
  \/ \E t \in timers : RefreshTimerFire(t)
  \/ \E id \in DOMAIN refreshInFlight, rt \in BOOLEAN : RefreshRespOk(id, rt)
  \/ \E id \in DOMAIN refreshInFlight, why \in {"notOk", "missingToken", "networkError"} :
        RefreshRespFail(id, why)
  \/ LogoutCall
  \/ \E o \in {"ok", "errorStatus", "threw"} : LogoutResp(o)
  \/ \E s \in DOMAIN sockets : WsOpen(s)
  \/ \E s \in DOMAIN sockets : WsError(s)
  \/ \E s \in DOMAIN sockets : WsClose(s)
  \/ \E s \in DOMAIN sockets, ev \in SessionMsgs : WsMessage(s, ev)
  \/ \E ct \in BOOLEAN : ReconnectFire(ct)
  \/ Shutdown

(* the session, its timers and its socket; the stream carries no transaction messages *)
Spec == Init /\ [][SessionNext]_vars

(* one submission *)
TxSpec == Init /\ [][TxNext]_vars

(* one submission whose awaited promises all settle: every RPC call resolves  *)
(* or rejects and every sleep() timer fires                                   *)
TxLiveSpec == Init /\ [][TxNext]_vars /\ WF_vars(TxNext)

(* one submission, while the session is authenticated (without refresh token) *)
(* and its stream delivers messages                                          *)
StreamTxNext ==
  \/ \E r \in 0..MaxStreamRetries : Submit(r)
  \/ \E b \in 1..MaxBlockhash, h \in 1..MaxHeight : BlockhashOk(b, h)
  \/ BlockhashFail
  \/ SendOk
  \/ SendFail
  \/ StatusErr
  \/ \E st \in {"confirmed", "finalized"} : StatusConfirmed(st)
  \/ \E st \in {"null", "processed", "rpcError"} : StatusPending(st)
  \/ \E s \in 0..(MaxHeight + 1) : SlotResp(s)
  \/ PollSleepDone
  \/ BackoffDone
  \/ AuthCall
  \/ AuthRespOk(FALSE, FALSE)
  \/ \E s \in DOMAIN sockets : WsOpen(s)
  \/ \E s \in DOMAIN sockets, ev \in Msgs : WsMessage(s, ev)

StreamTxSpec == Init /\ [][StreamTxNext]_vars

(* the listener registry and shutdown, without a session *)
ListenNext ==
  \/ \E k \in Keys : ListenToAccountChanges(k)
  \/ ListenToProgramLogs
  \/ \E c \in handles : InvokeCleanup(c)
  \/ \E c \in handles : DropHandle(c)
  \/ Shutdown

ListenSpec == Init /\ [][ListenNext]_vars

(* one verifyAttestation call *)
VerifyNext ==
  \/ vPc = "idle" /\ \E inp \in VerifyInputs : VerifyCall(inp)
  \/ AccountInfoResolves
  \/ AccountInfoRejects

VerifySpec == Init /\ [][VerifyNext]_vars

(* one batchVerifyAttestations call *)
BatchNext ==
  \/ \E addrs \in BatchInputs : BatchCall(addrs)
  \/ \E j \in DOMAIN bCalls, rpc \in {"resolved", "rejected"} : CallSettles(j, rpc)
  \/ ChunkDone
  \/ BatchSleepDone

BatchSpec == Init /\ [][BatchNext]_vars

(* one batchVerifyAttestations call whose first chunk is full and whose calls *)
(* all reach their RPC call                                                   *)
ChunkNext ==
  \/ \E addrs \in ChunkInputs : BatchCall(addrs)
  \/ \E j \in DOMAIN bCalls, rpc \in {"resolved", "rejected"} : CallSettles(j, rpc)
  \/ ChunkDone
  \/ BatchSleepDone

ChunkSpec == Init /\ [][ChunkNext]_vars

(* address derivation under one salt *)
AddrNext ==
  \/ \E s \in Salts : SetSalt(s)
  \/ \E nin \in NINs : GenerateAddress(nin)
  \/ \E nin \in NINs, r \in derived : VerifyAddress(nin, r.address)

AddrSpec == Init /\ [][AddrNext]_vars

(* the callers of NINService.generateAddress / verifyAddress *)
LimitNext ==
  \/ \E ip \in Ips : LimitedCall(ip)
  \/ IntervalElapsed
  \/ \E ip \in Ips : WaitOver(ip)

LimitSpec == Init /\ [][LimitNext]_vars

(* the retries of one submission whose attempts fail *)
BackoffNext ==
  \/ \E r \in BackoffRetries : BackoffCall(r)
  \/ \E j \in Jitters : AttemptFails(j)
  \/ AttemptEnds
  \/ BackoffOver

BackoffSpec == Init /\ [][BackoffNext]_vars

(* one job of BatchVerificationService *)
JobNext ==
  \/ \E n \in JobTotals, notify \in BOOLEAN : StartBatchVerification(n, notify)
  \/ /\ jPc = "chunk"
     /\ \E nv \in 0..JOB_BATCH_SIZE :
          \E ni \in 0..(JOB_BATCH_SIZE - nv) :
            \E ne \in 0..(JOB_BATCH_SIZE - nv - ni), threw \in BOOLEAN :
              /\ nv + ni + ne <= batchJob.total - jIndex
              /\ ChunkSettles(nv, ni, ne, threw)
  \/ \E ok \in BOOLEAN : NotifySettles(ok)

JobSpec == Init /\ [][JobNext]_vars


(* ------------------------------ claims -------------------------------- *)
Terminal == {"transaction_confirmed", "transaction_failed"}
NumEvents(type) ==
  Cardinality({i \in 1..Len(txEvents) : txEvents[i].type = type})
NoOpenSocket == \A s \in DOMAIN sockets : sockets[s] \notin {"connecting", "open"}

(* C1: once the ledger has reported an error for the sent signature, the     *)
(* submission is over with TransactionFailedError, whatever budget remains,  *)
(* and no getLatestBlockhash or sendRawTransaction call was issued since.    *)
C1_FatalShortCircuit ==
  rejected # <<>> =>
    /\ txPc = "done"
    /\ txResult = "TransactionFailedError"
    /\ nFetch = rejected[1]
    /\ nSend = rejected[2]

C1_Witness == rejected # <<>> /\ attempt < retries /\ nFetch = 1

(* C2 as stated: a submission whose network calls fail on every attempt      *)
(* makes exactly options.retries blockhash fetches before it fails.          *)
C2_ExactlyRetriesAttempts ==
  txResult = "BlockchainError" => nFetch = retries

(* C2 amended: it makes exactly options.retries + 1 blockhash fetches (the   *)
(* first attempt and options.retries retries), never more, and then fails.   *)
C2_RetriesPlusOneAttempts ==
  /\ nFetch <= retries + 1
  /\ txResult = "BlockchainError" => nFetch = retries + 1

C2_Witness ==
  txResult = "BlockchainError" /\ retries >= 2 /\ 0 < nSend /\ nSend < nFetch

(* C3: an attempt that ends with TransactionTimeoutError is retried while    *)
(* budget remains: the caller sees that error only with the budget used up.  *)
C3_ExpiredIsRetried ==
  txResult = "TransactionTimeoutError" => attempt >= retries

(* C4: a TRANSACTION_CONFIRMED or TRANSACTION_FAILED event for a signature   *)
(* is emitted only after a TRANSACTION_SENT event for the same signature.    *)
C4_TerminalOnlyAfterSent ==
  \A i \in 1..Len(txEvents) :
    txEvents[i].type \in Terminal =>
      \E j \in 1..(i - 1) : /\ txEvents[j].type = "transaction_sent"
                            /\ txEvents[j].sig = txEvents[i].sig

(* C5: once TRANSACTION_CONFIRMED or TRANSACTION_FAILED was emitted for a    *)
(* signature, no further transaction event is emitted for that signature.    *)
C5_NoEventAfterTerminal ==
  \A i \in 1..Len(txEvents) : \A j \in (i + 1)..Len(txEvents) :
    (txEvents[i].type \in Terminal /\ txEvents[i].sig # NoSig)
      => txEvents[j].sig # txEvents[i].sig

(* C6: a submission that exhausted its retry budget has emitted exactly one  *)
(* TRANSACTION_FAILED event when it rejects.                                 *)
C6_ExhaustionEmitsOneFailure ==
  txResult = "BlockchainError" => NumEvents("transaction_failed") = 1

(* C7 as stated: when the send fails on every attempt, one TRANSACTION_SENT  *)
(* event per outer attempt has been emitted when the call fails.             *)
C7_SentPerAttempt ==
  (txResult = "BlockchainError" /\ nSend = nFetch)
    => NumEvents("transaction_sent") = nFetch

(* C7 amended: when the send fails on every attempt, no TRANSACTION_SENT     *)
(* event is emitted (nor any other transaction event); the send was tried    *)
(* once per outer attempt and the call rejects with a BlockchainError made   *)
(* from the last send error.                                                 *)
C7_NoSentWhenSendFails ==
  (txResult = "BlockchainError" /\ nSend = nFetch)
    => /\ txEvents = <<>>
       /\ nSend = attempt + 1
       /\ lastError = "sendError"

C7_Witness == txResult = "BlockchainError" /\ nSend = nFetch /\ nFetch >= 2

(* C8: when logoutFromSAS returns there is no session, no socket and no      *)
(* armed refresh timer, whatever the server answered (or without a session). *)
C8_LogoutTearsDown ==
  last.op = "LogoutReturn" =>
    /\ sasSession = NoSession
    /\ ws = NULL
    /\ NoOpenSocket
    /\ sasRefreshTimeout = NULL
    /\ timers = {}

C8_Witness == last.op = "LogoutReturn" /\ last.arg = "threw"

(* C9: the step in which a refresh fails discards the session, tears the     *)
(* socket down, emits SAS_SESSION_EXPIRED exactly once, issues no refresh    *)
(* request and leaves no refresh timer armed.                                *)
C9_RefreshFailureIsFatal ==
  [][ last'.op = "RefreshFail" =>
        /\ sasSession' = NoSession
        /\ ws' = NULL
        /\ \A s \in DOMAIN sockets' : sockets'[s] \notin {"connecting", "open"}
        /\ last'.out = <<"sas_session_expired">>
        /\ DOMAIN refreshInFlight' \subseteq DOMAIN refreshInFlight
        /\ sasRefreshTimeout' = NULL
        /\ timers' = {} ]_vars

C9_Witness == last.op = "RefreshFail" /\ last.arg = "notOk"

(* C10: of two refreshes that were in flight together only one installs a    *)
(* token, and two refresh timers are never armed at once.                    *)
C10_OneInstallPerConcurrentPair ==
  /\ last.op = "RefreshOk" => last.arg # "afterPeer"
  /\ Cardinality(timers) <= 1

(* C11: reconnectAttempts never exceeds maxReconnectAttempts, the step in     *)
(* which a connecting socket opens sets it to 0, and once it stands at        *)
(* maxReconnectAttempts no step arms a reconnect timer.                       *)
C11_ReconnectCounter ==
  /\ [](reconnectAttempts <= maxReconnectAttempts)
  /\ [][ (\E s \in DOMAIN sockets \cap DOMAIN sockets' :
             sockets[s] = "connecting" /\ sockets'[s] = "open")
           => reconnectAttempts' = 0 ]_vars
  /\ [][ reconnectAttempts >= maxReconnectAttempts
           => reconnectTimers' <= reconnectTimers ]_vars

C11_Witness ==
  /\ last.op = "ReconnectCap"
  /\ reconnectAttempts = maxReconnectAttempts
  /\ sasSession # NoSession
  /\ reconnectTimers = 0

(* C12: the step in which scheduleReconnect gives up at the cap emits an      *)
(* event that tells subscribers the stream is gone for good.                  *)
StreamDownEvents == {"sas_session_expired", "sas:disconnected"}

C12_CapEmitsDisconnect ==
  last.op = "ReconnectCap" =>
    \E i \in DOMAIN last.out : last.out[i] \in StreamDownEvents

(* the outcome classes of a verifyAttestation result *)
Outcome(res) ==
  CASE res.isValid -> "valid"
    [] res.error \in {"Invalid attestation address",
                      "Invalid attestation address format"} -> "address"
    [] res.error = "Attestation account not found" -> "notFound"
    [] res.error = "Attestation account is not owned by expected program" -> "wrongOwner"
    [] res.error = "Attestation data invalid or malformed" -> "malformed"
    [] OTHER -> "failed"

(* C13 as stated: address, then not found, then wrong owner, then malformed   *)
(* (unparsable, an id missing or empty, a type outside the two, a timestamp   *)
(* in the future), otherwise valid; nothing else is ever returned.            *)
MalformedAsStated(raw) ==
  \/ raw.text # "object"
  \/ \E id \in {raw.credentialId, raw.studentId, raw.universityId} : id \in {"missing", "empty"}
  \/ raw.attestationType \notin {"UNIVERSITY_ISSUED", "GOVERNMENT_ACCREDITED"}
  \/ raw.timestamp = "future"

C13_ClassifiesAsStated ==
  vPc = "done" =>
    Outcome(vResult) =
      IF vInput.addr # "ok" THEN "address"
      ELSE IF vInput.rpc = "absent" THEN "notFound"
      ELSE IF vInput.owner # "program" THEN "wrongOwner"
      ELSE IF MalformedAsStated(vInput.raw) THEN "malformed"
      ELSE "valid"

(* C13 amended: address, then a rejected account fetch ('Verification         *)
(* failed'), then not found, then wrong owner, then malformed, where          *)
(* malformed also covers an id that is not a string and a timestamp that is   *)
(* not a number; otherwise valid, with the parsed record.                     *)
Malformed(raw) ==
  \/ raw.text # "object"
  \/ \E id \in {raw.credentialId, raw.studentId, raw.universityId} : id # "string"
  \/ raw.attestationType \notin {"UNIVERSITY_ISSUED", "GOVERNMENT_ACCREDITED"}
  \/ raw.timestamp \in {"future", "string"}

C13_Classifies ==
  vPc = "done" =>
    /\ Outcome(vResult) =
         IF vInput.addr # "ok" THEN "address"
         ELSE IF vInput.rpc = "rejects" THEN "failed"
         ELSE IF vInput.rpc = "absent" THEN "notFound"
         ELSE IF vInput.owner # "program" THEN "wrongOwner"
         ELSE IF Malformed(vInput.raw) THEN "malformed"
         ELSE "valid"
    /\ vResult.isValid =>
         /\ Len(vResult.data) = 1
         /\ \A f \in {"credentialId", "studentId", "universityId", "attestationType"} :
              vResult.data[1][f] = vInput.raw[f]
    /\ ~vResult.isValid => vResult.data = <<>>

C13_Witness ==
  /\ vPc = "done"
  /\ vInput.addr = "ok" /\ vInput.rpc = "present" /\ vInput.owner = "other"
  /\ Outcome(vResult) = "wrongOwner"

(* C14: a batch returns (it never throws) a map with an entry for every       *)
(* address of its input, each being what verifyAttestation returned for the   *)
(* last call made with that address, whatever the other calls returned.       *)
C14_BatchIsolated ==
  /\ bPc \in {"idle", "chunk", "sleep", "returned"}
  /\ bPc = "returned" =>
       /\ DOMAIN results = {bAddrs[j] : j \in 1..Len(bAddrs)}
       /\ \A j \in 1..Len(bAddrs) :
            /\ bCalls[j].state = "settled"
            /\ (\A k \in (j + 1)..Len(bAddrs) : bAddrs[k] # bAddrs[j])
                 => results[bAddrs[j]] = VerifyAttestation(bAddrs[j], bCalls[j].rpc)

C14_Witness ==
  /\ bPc = "returned"
  /\ Len(bAddrs) > BATCH_SIZE
  /\ \E j \in 1..Len(bAddrs) : bCalls[j].rpc = "rejected"
  /\ \E a \in DOMAIN results : results[a].isValid

(* C15: at most one subscription per account key is live at the connection. *)
C15_OneUpstreamPerKey ==
  \A k \in Keys : Cardinality({id \in DOMAIN upstream : upstream[id] = k}) <= 1

(* C16: the invocation of a cleanup closure leaves its key unregistered, and  *)
(* from the second invocation on it changes no registry entry and issues no   *)
(* removal at the connection.                                                 *)
C16_CleanupRemovesOnce ==
  lastCleanup.nth >= 1 =>
    /\ ~lastCleanup.registered
    /\ lastCleanup.nth >= 2 => (~lastCleanup.regChanged /\ lastCleanup.removals = 0)

(* C17: when shutdown returns the registry is empty, there is no logs         *)
(* subscription, no session, no socket, and no refresh or reconnect timer is  *)
(* pending.                                                                   *)
C17_ShutdownLeavesNothing ==
  last.op = "ShutdownReturn" =>
    /\ accountChangeListeners = <<>>
    /\ logsSubscriptionId = NULL
    /\ sasSession = NoSession
    /\ ws = NULL
    /\ NoOpenSocket
    /\ sasRefreshTimeout = NULL
    /\ timers = {}
    /\ reconnectTimers = 0

(* C18: under one salt a NIN always yields the same address, and              *)
(* verifyAddressForNIN(s, a) for an address a generated from s1 is true       *)
(* exactly when s = s1.                                                       *)
C18_DerivationExact ==
  /\ \A r1, r2 \in derived : r1.nin = r2.nin => r1.address = r2.address
  /\ checked.out \in {"true", "false"} =>
       \A r \in derived :
         r.address = checked.address => ((checked.out = "true") <=> (r.nin = checked.nin))

C18_Witness ==
  /\ checked.out = "false"
  /\ \E r1, r2 \in derived : /\ r1.nin # r2.nin
                             /\ r1.address = checked.address
                             /\ r2.nin = checked.nin

(* C19: a call is never left waiting for tokens, and a call of a caller is    *)
(* held back only when that caller itself used up a bucket.                   *)
C19_PerCallerFailClosed ==
  \A ip \in Ips :
    /\ callState[ip] # "waiting"
    /\ callState[ip] # "passed" /\ callState[ip] # "idle" => served[ip] >= tokensPerInterval

(* C20: once getSlot answered a slot beyond lastValidBlockHeight, the attempt *)
(* is over with TransactionTimeoutError: no sleep, no further status query.   *)
C20_ExpiryStopsPolling ==
  slot > lastValidBlockHeight =>
    /\ txPc \in {"done", "backoff"}
    /\ lastError = "TransactionTimeoutError"

(* C21: waitForConfirmation always ends, within the confirmation timeout, in  *)
(* a return, a TransactionFailedError or a TransactionTimeoutError, whatever  *)
(* the status and slot queries answer; sendTransactionWithRetry ends after at *)
(* most retries + 1 attempts.                                                 *)
Polling == txPc \in {"awaitStatus", "awaitSlot", "pollSleep"}

Caps == {retryDelay * Pow2(k) : k \in 0..MaxCapExp}

C22_DelayCapped ==
  \E maxDelay \in Caps, pct \in 0..100 :
    \A n \in DOMAIN slept :
      LET delay == Min(maxDelay, retryDelay * Pow2(n - 1))
      IN  /\ delay <= slept[n]
          /\ 100 * slept[n] <= (100 + pct) * delay

(* C30: a job keeps processed = valid + invalid = number of results <= total, *)
(* COMPLETED implies processed = total, and the status only moves forward     *)
(* PENDING -> PROCESSING -> (COMPLETED | FAILED), never out of a terminal one. *)
JobConsistent(job) ==
  /\ job.processed = job.valid + job.invalid
  /\ job.processed = job.results
  /\ job.processed <= job.total
  /\ job.status = "COMPLETED" => job.processed = job.total

StatusRank(st) ==
  CASE st = "NONE" -> 0 [] st = "PENDING" -> 1 [] st = "PROCESSING" -> 2 [] OTHER -> 3

C23_OneRefreshTimer == timers \subseteq {sasRefreshTimeout} \ {NULL}

C23_Witness ==
  /\ sasRefreshTimeout = 2 /\ timers = {2}
  /\ authInFlight = 0 /\ refreshInFlight = <<>>

(* C24: at most one stream-reconnect timer is pending: scheduling a reconnect *)
(* cancels the one pending, and cleanupSession cancels it too.                *)
C24_OneReconnectTimer ==
  /\ reconnectTimers <= 1
  /\ sasSession = NoSession => reconnectTimers = 0

(* C25: the stream connection never outlives its session: while ws is set the *)
(* session is set, and without a session no socket of the instance can call   *)
(* back.                                                                      *)
C25_StreamWithinSession ==
  /\ ws # NULL => sasSession # NoSession
  /\ sasSession = NoSession => sockets = <<>>

C25_Witness ==
  /\ last.op = "LogoutReturn" /\ sasSession = NoSession /\ ws = NULL
  /\ reconnectTimers > 0

(* C27: a refresh response that arrives after the session was torn down does  *)
(* not bring it back: a session appears only in a step in which an            *)
(* authenticateWithSAS call gets its response, and while there is no session  *)
(* no refresh timer is armed.                                                 *)
C27_NoResurrection ==
  /\ [](sasSession = NoSession => timers = {})
  /\ [][(sasSession = NoSession /\ sasSession' # NoSession)
          => authInFlight' < authInFlight]_vars

(* C26: batchVerifyAttestations never has more than BATCH_SIZE (10) calls in  *)
(* flight, starts no call of a chunk before every call of the chunks before   *)
(* it has completed, and sleeps between two chunks but not after the last.    *)
InFlight == {j \in DOMAIN bCalls : bCalls[j].state = "awaiting"}
ChunkOf(j) == (j - 1) \div BATCH_SIZE

C26_ChunkedParallelism ==
  /\ [](Cardinality(InFlight) <= BATCH_SIZE)
  /\ [](\A j, k \in DOMAIN bCalls :
          (ChunkOf(j) < ChunkOf(k) /\ bCalls[k].state # "notStarted")
            => bCalls[j].state = "settled")
  /\ [](bPc = "sleep" => bStart + BATCH_SIZE < Len(bAddrs))
  /\ [][bStart' # bStart => bPc = "sleep"]_vars
  /\ [][bPc' = "returned" => bPc # "sleep"]_vars

C26_Witness ==
  /\ bPc = "chunk" /\ bStart = BATCH_SIZE
  /\ Len(bAddrs) = BATCH_SIZE + MaxTail
  /\ Cardinality(InFlight) = MaxTail
  /\ \A j \in 1..BATCH_SIZE : bCalls[j].state = "settled" /\ bCalls[j].rpc = "resolved"

(* C28: as long as shutdown has not run, the registry holds a key exactly     *)
(* when a subscription for it is live at the connection, and while a          *)
(* registrant of a key holds a cleanup handle it has not invoked, the         *)
(* subscription for that key is live.                                         *)
LiveFor(k) == \E id \in DOMAIN upstream : upstream[id] = k

C28_RegistryConsistent ==
  last.op # "ShutdownReturn" =>
    /\ \A k \in Keys : (k \in DOMAIN accountChangeListeners) <=> LiveFor(k)
    /\ \A c \in handles : (c.key \in Keys /\ c.calls = 0) => LiveFor(c.key)

(* C29: at most one logs subscription is live, and a logs cleanup handle      *)
(* removes nothing but the subscription its own call created: invoked after   *)
(* that subscription was replaced, it leaves logsSubscriptionId as it was.    *)
C29_LogsHandleOwnsItsSubscription ==
  /\ Cardinality({id \in DOMAIN upstream : upstream[id] = "logs"}) <= 1
  /\ logsCleanup.own # NULL =>
       /\ logsCleanup.removed \in {NULL, logsCleanup.own}
       /\ logsCleanup.before # logsCleanup.own => logsSubscriptionId = logsCleanup.before

====
